---- MODULE Spec2Model ----
(***************************************************************************)
(* Call-signaling relay of the video calling app: the CallConsumer         *)
(* WebSocket consumer (apps/calls/consumers.py) on top of a channel layer  *)
(* with named groups, and the CallParticipant rows it maintains.           *)
(*                                                                         *)
(* JSON values that the code compares or tests for truthiness are named by *)
(* strings: Null is Python's None (a missing key read with dict.get, or a  *)
(* JSON null), "" is the empty string, JsonZero, JsonFalse, JsonEmptyArray *)
(* and JsonEmptyObject are the values 0, false, [] and {} (no strings, and *)
(* false to Python), every other value is a non-empty string.              *)
(*                                                                         *)
(* group_send only queues an event for the member channels; each consumer  *)
(* takes the events of its channel one by one (dispatch) and runs the      *)
(* handler named by the event type.  A consumer whose handler raised, or   *)
(* that was torn down, takes no more events.                               *)
(***************************************************************************)
EXTENDS Naturals, Sequences, FiniteSets

VARIABLES
    env,           \* the clients that take part in the run and what they send
    cstate,        \* per connection: position in the consumer's life
    groups,        \* channel layer: group name -> set of member channels
    inbox,         \* channel layer: per channel, the events waiting for its consumer
    participants,  \* CallParticipant rows, per (call_id, user)
    close_code,    \* per connection: the code connect passed to close()
    racer,         \* per racing get_or_create: who runs it and how far it is
    pc,            \* per connection: the await its connect or disconnect is at
    dbops,         \* history: the add/remove_participant calls made, in order
    undelivered,   \* history: per connection, the events whose send raised
    held,          \* per connection: the row its database function has read
    ignored,       \* history: per connection, the disconnects that found it stopped
    sent,          \* history: per connection, the frames sent to its client
    sends,         \* history: the group_send calls made, in order
    rcvd,          \* history: per connection, the frames received from its client
    sessions,      \* CallSession rows made through the views, with their participants
    cache,         \* the cache: per user, the entry active_calls_<user id>
    log,           \* history: the view and service calls made, with their outcome
    reqs,          \* per thread: the view or service call it has under way
    bandwidth_kbps,     \* get_optimal_quality: first argument
    cpu_usage_percent,  \* get_optimal_quality: second argument
    quality             \* get_optimal_quality: what it returned

\* the state of the consumers and of the channel layer
consumer_vars == <<env, cstate, groups, inbox, participants, close_code, racer,
                   pc, dbops, undelivered, held, ignored, sent, sends, rcvd>>

\* the state behind the views and CallService
service_vars == <<sessions, cache, log, reqs>>

\* the state of one get_optimal_quality call
quality_vars == <<bandwidth_kbps, cpu_usage_percent, quality>>

vars == <<consumer_vars, service_vars, quality_vars>>

\* cstate[c] is "idle" before connect, "open" once accepted, "rejected" when
\* connect closed the socket without accepting it, "closed" after disconnect
\* ran to its end, "failed" when disconnect raised, "crashed" when receive
\* raised, "aborted" when connect raised after it accepted the socket, and
\* "broken" when a group handler raised in self.send. It changes when a
\* handler returns or raises; while connect or disconnect is suspended at an
\* await, pc[c] names the statement it will run next.

(***************************************************************************)
(* Bounds of the model.                                                    *)
(***************************************************************************)
\* how many client frames are received in one run of a relay scenario
MaxMsgs == 1
\* how many client frames are received in one run of the input scenario
MaxFrames == 2
\* how many connections are torn down in one run
MaxDisconnects == 1
\* how many times a disconnect comes again for a connection that was closed
MaxRepeats == 1
\* how many view and service calls are made in one run, and in a run where
\* several users or several views make them
MaxLog == 6
MaxLogShared == 4
\* how many of them meet a failing cache
MaxFaults == 1
\* how many times the row of a call is written as ended in one run
MaxEnds == 2
\* get_optimal_quality: how far on each side of a threshold the bandwidths
\* tried reach, the greatest bandwidth and the greatest CPU percentage tried
BandwidthWindow == 3
MaxBandwidth == 5100
MaxCpu == 100

(***************************************************************************)
(* The world the consumer runs in: users, calls, and the scope of each     *)
(* connection (scope['user'] and the call_id of its URL route).            *)
(***************************************************************************)
Null == "null"

Users == {"u1", "u2", "u3"}
Anonymous == "anon"

\* call ids used in URLs; only ExistingCalls have a CallSession row, and
\* the row of each of EndedCalls has status 'ended'
CallIds == {"cA", "cB", "cE"}
ExistingCalls == {"cA", "cE"}
EndedCalls == {"cE"}

\* CallSession.status of an existing call: nothing in the application
\* changes it after the row is written
Status(call_id) == IF call_id \in EndedCalls THEN "ended" ELSE "waiting"

Conns == {"k1", "k2", "k3", "k4", "k5", "k6", "k7"}

\* scope of each connection: three users in call cA, a second device of u2
\* in cA, u1 in another call, an anonymous client on cA, and u1 on the
\* ended call
Scope ==
    [k1 |-> [user |-> "u1", call_id |-> "cA"],
     k2 |-> [user |-> "u2", call_id |-> "cA"],
     k3 |-> [user |-> "u3", call_id |-> "cA"],
     k4 |-> [user |-> "u2", call_id |-> "cA"],
     k5 |-> [user |-> "u1", call_id |-> "cB"],
     k6 |-> [user |-> Anonymous, call_id |-> "cA"],
     k7 |-> [user |-> "u1", call_id |-> "cE"]]

\* user.is_anonymous
is_anonymous(u) == u = Anonymous

\* str(self.user.id): the user's UUID in text form; AnonymousUser.id is None
StrId(u) ==
    CASE u = "u1" -> "uuid-1"
      [] u = "u2" -> "uuid-2"
      [] u = "u3" -> "uuid-3"
      [] OTHER    -> "None"

\* self.user.username; AnonymousUser.username is ''
Username(u) ==
    CASE u = "u1" -> "alice"
      [] u = "u2" -> "bob"
      [] u = "u3" -> "carol"
      [] OTHER    -> ""

\* the JSON values 0, false, [] and {}: equal to no string
JsonZero == "json 0"
JsonFalse == "json false"
JsonEmptyArray == "json []"
JsonEmptyObject == "json {}"
NonStringFalsy == {JsonZero, JsonFalse, JsonEmptyArray, JsonEmptyObject}

\* Python truthiness of a value read from a message
PyTruthy(v) == v \notin {Null, ""} \cup NonStringFalsy

\* one group name for every call
CallGroupName_shared(call_id) == <<"call_", "">>

\* self.call_group_name = f'call_{self.call_id}'
CallGroupName(call_id) == <<"call_", call_id>>

GroupNames == {CallGroupName(k) : k \in CallIds}

(***************************************************************************)
(* Frames a client can send.  form says what json.loads makes of the text: *)
(* "invalid" raises JSONDecodeError, "nonobject" parses to a value that is *)
(* not a dict, "object" parses to a dict with the fields shown.            *)
(***************************************************************************)
Payloads == {"p1"}
TargetIds == {Null, "", "uuid-1", "uuid-2"} \cup NonStringFalsy

TargetedTypes == {"offer", "answer", "ice_candidate"}
UntargetedTypes == {"quality_change", "screen_share_start", "screen_share_stop"}
\* types the dispatch of receive has no branch for; the first two are what
\* the test helpers create_webrtc_offer / create_webrtc_answer build
OtherTypes == {"webrtc_offer", "webrtc_answer", "unknown_message_type"}

\* what a client may put under the key sender_id of its frame: nothing, or
\* the id of a user (the test helpers put one there); receive and the
\* handle_* methods never read this key, nor user_id or username
ClaimedIds == {Null, "uuid-2"}

Texts ==
    {[form |-> "invalid", type |-> Null, payload |-> Null, target_id |-> Null,
      sender_id |-> Null],
     [form |-> "nonobject", type |-> Null, payload |-> Null, target_id |-> Null,
      sender_id |-> Null]}
    \cup [form : {"object"}, type : TargetedTypes, payload : Payloads,
          target_id : TargetIds, sender_id : ClaimedIds]
    \cup [form : {"object"}, type : UntargetedTypes, payload : Payloads,
          target_id : {Null}, sender_id : ClaimedIds]
    \cup [form : {"object"}, type : OtherTypes, payload : Payloads,
          target_id : {Null, "uuid-2"}, sender_id : {Null}]

\* the frames without a sender_id key
PlainTexts == {t \in Texts : t.sender_id = Null}

(***************************************************************************)
(* Events on the channel layer and frames to clients.  src and idx are     *)
(* history fields: the connection whose handler made the group_send, and   *)
(* the position in rcvd[src] of the client frame that caused it (0 for a   *)
(* join or leave notification).                                            *)
(***************************************************************************)
Event(type, payload, sender_id, target_id, user_id, username, src, idx) ==
    [type |-> type, payload |-> payload, sender_id |-> sender_id,
     target_id |-> target_id, user_id |-> user_id, username |-> username,
     src |-> src, idx |-> idx]

Frame(type, payload, sender_id, user_id, username, message, src, idx) ==
    [type |-> type, payload |-> payload, sender_id |-> sender_id,
     user_id |-> user_id, username |-> username, message |-> message,
     src |-> src, idx |-> idx]

(***************************************************************************)
(* Scenarios: the connections that are opened in a run, the frames their   *)
(* clients send, and how many frames are sent.                             *)
(***************************************************************************)
Scenarios == {"relay", "isolation", "broadcast", "input", "anonymous",
              "teardown", "race", "spoof", "unreachable", "fanout", "ended",
              "devices", "falsy"}

ScenarioConns(s) ==
    CASE s = "relay"     -> {"k1", "k2", "k4"}
      [] s = "isolation" -> {"k1", "k2", "k5"}
      [] s = "broadcast" -> {"k1", "k2", "k3"}
      [] s = "input"     -> {"k1", "k2"}
      [] s = "anonymous" -> {"k1", "k2", "k6"}
      [] s = "teardown"  -> {"k1", "k2"}
      [] s = "race"      -> {"k2"}
      [] s = "spoof"     -> {"k1", "k2"}
      [] s = "unreachable" -> {"k1", "k3"}
      [] s = "fanout"    -> {"k1", "k2", "k3"}
      [] s = "ended"     -> {"k7"}
      [] s = "devices"   -> {"k1", "k2", "k4"}
      [] s = "falsy"     -> {"k1", "k2"}

\* the connections whose clients send frames
ScenarioSenders(s) ==
    CASE s \in {"isolation", "anonymous", "teardown"} -> {"k1", "k2"}
      [] OTHER -> {"k1"}

ScenarioTexts(s) ==
    CASE s = "relay"     -> {t \in PlainTexts :
                                /\ t.type \in TargetedTypes
                                /\ t.target_id \notin NonStringFalsy}
      [] s = "isolation" -> {t \in PlainTexts : t.form = "object" /\ t.target_id \in {Null, "uuid-1"}}
      [] s = "broadcast" -> {t \in PlainTexts : t.type \in UntargetedTypes}
      [] s = "input"     -> {t \in PlainTexts :
                                \/ t.form # "object"
                                \/ t.type \in OtherTypes
                                \/ t.type = "offer" /\ t.target_id = Null}
      [] s = "anonymous" -> {t \in PlainTexts : t.type = "quality_change"}
      [] s = "teardown"  -> {t \in PlainTexts : t.type = "screen_share_stop"}
      [] s = "race"      -> {}
      [] s = "spoof"     -> {t \in Texts :
                                /\ t.type \in {"offer", "screen_share_start"}
                                /\ t.target_id = Null}
      [] s = "unreachable" -> {t \in PlainTexts :
                                \/ t.type = "ice_candidate" /\ t.target_id = "uuid-2"
                                \/ t.type = "quality_change"}
      [] s = "fanout"    -> {t \in PlainTexts : t.type = "quality_change"}
      [] s = "ended"     -> {}
      [] s = "devices"   -> {}
      [] s = "falsy"     -> {t \in PlainTexts :
                                /\ t.type \in TargetedTypes
                                /\ t.target_id \in NonStringFalsy}

\* how many connections are torn down in a run of the scenario
ScenarioDisconnects(s) ==
    IF s \in {"anonymous", "teardown", "devices", "race"} THEN MaxDisconnects
    ELSE 0

ScenarioMsgs(s) ==
    IF s \in {"input", "unreachable", "spoof"} THEN MaxFrames ELSE MaxMsgs

\* the scenarios in which the database may fail under a statement
FaultScenarios == {"teardown"}

\* the scenarios in which a disconnect may come again for a stopped consumer
RepeatScenarios == {"teardown"}

NoRow == [exists |-> FALSE, is_active |-> FALSE, left_at |-> Null]

\* close_code[c] before close() is called
Unset == "unset"

\* the racing get_or_create calls of the race scenario, all for one call and
\* one user, and the code paths that make them
Racers == {"r1", "r2"}
RaceCall == "cA"
RaceUser == "u2"
RacerKinds == {"add_participant_to_call", "call_room", "join_call"}
IdleRacer == [kind |-> Null, pc |-> "idle", obj |-> NoRow, conflict |-> FALSE]

\* the row of a participant who joined and left before the run, as
\* remove_participant_from_call leaves it
LeftRow == [exists |-> TRUE, is_active |-> FALSE, left_at |-> Null]

\* the call of the ended scenario and the user who comes back to it
EndedCall == "cE"
EndedUser == "u1"

\* the participant whose row a run may start with
InitialKey(s) ==
    IF s = "ended" THEN <<EndedCall, EndedUser>> ELSE <<RaceCall, RaceUser>>

\* the rows of InitialKey(s) a run may start with
InitialRows(s) == IF s \in {"race", "ended"} THEN {NoRow, LeftRow} ELSE {NoRow}

\* pc[c] when no connect or disconnect of c is under way
AtRest == "-"

\* no connection opened yet
ConsumerIdle ==
    /\ cstate = [c \in Conns |-> "idle"]
    /\ groups = [g \in GroupNames |-> {}]
    /\ inbox = [c \in Conns |-> <<>>]
    /\ close_code = [c \in Conns |-> Unset]
    /\ racer = [r \in Racers |-> IdleRacer]
    /\ pc = [c \in Conns |-> AtRest]
    /\ dbops = <<>>
    /\ undelivered = [c \in Conns |-> <<>>]
    /\ held = [c \in Conns |-> NoRow]
    /\ ignored = [c \in Conns |-> 0]
    /\ sent = [c \in Conns |-> <<>>]
    /\ sends = <<>>
    /\ rcvd = [c \in Conns |-> <<>>]

\* the sessions the views may create in a run
SessionIds == {"s1", "s2"}

NoSession == [exists |-> FALSE, initiator |-> Null, status |-> Null,
              ended_at |-> Null, participants |-> {}]

\* a cache key without an entry: cache.get returns None
NoEntry == [present |-> FALSE, calls |-> {}]

\* the threads that run the views and the service
Requests == {"q1", "q2"}

\* a thread with no call under way
NoRequest == [op |-> Null, user |-> Null, arg |-> Null, session |-> Null,
              pc |-> "idle", began |-> 0, calls |-> {}]

\* no view or service call made yet
ServiceIdle ==
    /\ sessions = [s \in SessionIds |-> NoSession]
    /\ cache = [u \in Users |-> NoEntry]
    /\ log = <<>>
    /\ reqs = [q \in Requests |-> NoRequest]

\* no get_optimal_quality call under way
QualityIdle ==
    /\ bandwidth_kbps = 0
    /\ cpu_usage_percent = 0
    /\ quality = Null

Init ==
    /\ env \in Scenarios
    /\ ConsumerIdle
    /\ \E row \in InitialRows(env) :
          participants = [k \in ExistingCalls, u \in Users |->
                             IF <<k, u>> = InitialKey(env) THEN row ELSE NoRow]
    /\ ServiceIdle
    /\ QualityIdle

(***************************************************************************)
(* Persistence: the CallParticipant rows.                                  *)
(***************************************************************************)
\* Row(parts, call_id, u): the row of (call_id, u), NoRow when the call has
\* no CallSession or the user no row
Row(parts, call_id, u) ==
    IF call_id \in ExistingCalls /\ u \in Users THEN parts[call_id, u] ELSE NoRow

\* a create whose IntegrityError goes to the caller
create_outcome_raise(row) == IF row.exists THEN "raised" ELSE "done"

\* where the INSERT leaves get_or_create: the row is created, or the unique
\* constraint refuses it and the IntegrityError is caught for a second get
create_outcome(row) == IF row.exists THEN "conflict" ELSE "done"

\* the row get_or_create inserts
created_row == [exists |-> TRUE, is_active |-> TRUE, left_at |-> Null]

\* a caller that saves the row as get_or_create gave it
reactivated_as_found(kind, obj) == obj

\* the row a caller saves when get_or_create gave it an existing one:
\* add_participant_to_call sets is_active and saves; call_room and join_call
\* save only an inactive row, active and with left_at cleared
reactivated(kind, obj) ==
    IF kind = "add_participant_to_call"
    THEN [obj EXCEPT !.is_active = TRUE]
    ELSE [obj EXCEPT !.is_active = TRUE, !.left_at = Null]

\* whether the caller saves the row get_or_create gave it
reactivate_saves(kind, obj) ==
    kind = "add_participant_to_call" \/ ~obj.is_active

\* a lookup that finds no row for an anonymous user instead of raising
remove_participant_raises_never(u) == FALSE

\* remove_participant_from_call raises when the lookup is made with a user
\* that is not a model instance (AnonymousUser cannot be turned into the
\* UUID primary key the query needs); only DoesNotExist is caught
remove_participant_raises(u) == is_anonymous(u)

\* a remove_participant_from_call that also records when the user left
marked_left_stamped(obj) == [obj EXCEPT !.is_active = FALSE, !.left_at = "t1"]

\* remove_participant_from_call, after its get: is_active = False on the
\* object it read; save() writes every field of that object
marked_left(obj) == [obj EXCEPT !.is_active = FALSE]

(***************************************************************************)
(* Channel layer.                                                          *)
(***************************************************************************)
\* group_add(group, channel)
group_add(grps, g, c) == [grps EXCEPT ![g] = @ \cup {c}]

\* group_discard(group, channel)
group_discard(grps, g, c) == [grps EXCEPT ![g] = @ \ {c}]

\* a group_send that puts the event in front of what waits in a channel
group_send_prepend(ib, grps, g, event) ==
    [c \in Conns |-> IF c \in grps[g] THEN <<event>> \o ib[c] ELSE ib[c]]

\* a fan-out that ends after the first member of the group
group_send_first_only(ib, grps, g, event) ==
    IF grps[g] = {} THEN ib
    ELSE LET first == CHOOSE c \in grps[g] : TRUE
         IN [ib EXCEPT ![first] = Append(@, event)]

\* group_send(group, event): the event is queued for every channel that is a
\* member of the group at that time, the sender's own channel included
group_send(ib, grps, g, event) ==
    [c \in Conns |-> IF c \in grps[g] THEN Append(ib[c], event) ELSE ib[c]]

\* the record of one group_send call, with the channels that were members
\* of the group when it was made
SendRec(grps, g, event) == [group |-> g, event |-> event, members |-> grps[g]]

\* the record of one add_participant_to_call or remove_participant_from_call
DbOp(op, call_id, u) == [op |-> op, call_id |-> call_id, user |-> u]

(***************************************************************************)
(* receive: the handle_* methods build the event that is sent to the       *)
(* connection's call group.                                                *)
(***************************************************************************)
\* handle_webrtc_offer that takes the sender_id the client supplied when
\* there is one
handle_webrtc_offer_trusting(c, data, idx) ==
    Event("webrtc_offer", data.payload,
          IF data.sender_id # Null THEN data.sender_id ELSE StrId(Scope[c].user),
          data.target_id, Null, Null, c, idx)

handle_webrtc_offer(c, data, idx) ==
    Event("webrtc_offer", data.payload, StrId(Scope[c].user), data.target_id,
          Null, Null, c, idx)

handle_webrtc_answer(c, data, idx) ==
    Event("webrtc_answer", data.payload, StrId(Scope[c].user), data.target_id,
          Null, Null, c, idx)

handle_ice_candidate(c, data, idx) ==
    Event("ice_candidate", data.payload, StrId(Scope[c].user), data.target_id,
          Null, Null, c, idx)

handle_quality_change(c, data, idx) ==
    Event("quality_change", data.payload, StrId(Scope[c].user), Null,
          Null, Null, c, idx)

handle_screen_share_start(c, data, idx) ==
    Event("screen_share_start", Null, StrId(Scope[c].user), Null,
          Null, Username(Scope[c].user), c, idx)

handle_screen_share_stop(c, data, idx) ==
    Event("screen_share_stop", Null, StrId(Scope[c].user), Null,
          Null, Username(Scope[c].user), c, idx)

\* a chain whose last branch is an else that relays the frame as an offer
receive_events_else_offer(c, data, idx) ==
    CASE data.type = "answer"             -> <<handle_webrtc_answer(c, data, idx)>>
      [] data.type = "ice_candidate"      -> <<handle_ice_candidate(c, data, idx)>>
      [] data.type = "quality_change"     -> <<handle_quality_change(c, data, idx)>>
      [] data.type = "screen_share_start" -> <<handle_screen_share_start(c, data, idx)>>
      [] data.type = "screen_share_stop"  -> <<handle_screen_share_stop(c, data, idx)>>
      [] OTHER                            -> <<handle_webrtc_offer(c, data, idx)>>

\* the if/elif chain of receive on data.get('type'): the events it sends to
\* the call group (none when no branch matches)
receive_events(c, data, idx) ==
    CASE data.type = "offer"              -> <<handle_webrtc_offer(c, data, idx)>>
      [] data.type = "answer"             -> <<handle_webrtc_answer(c, data, idx)>>
      [] data.type = "ice_candidate"      -> <<handle_ice_candidate(c, data, idx)>>
      [] data.type = "quality_change"     -> <<handle_quality_change(c, data, idx)>>
      [] data.type = "screen_share_start" -> <<handle_screen_share_start(c, data, idx)>>
      [] data.type = "screen_share_stop"  -> <<handle_screen_share_stop(c, data, idx)>>
      [] OTHER                            -> <<>>

\* no reply at all
receive_error_reply_none(c, text, idx) == <<>>

\* the except json.JSONDecodeError branch of receive: the reply to the sender
receive_error_reply(c, text, idx) ==
    IF text.form = "invalid"
    THEN <<Frame("error", Null, Null, Null, Null, "Invalid JSON data", c, idx)>>
    ELSE <<>>

\* data.get on a parsed value that is not a dict raises AttributeError, which
\* receive does not catch
receive_raises(text) == text.form = "nonobject"

(***************************************************************************)
(* Group message handlers: the frames a consumer sends to its client for   *)
(* an event taken from its channel.                                        *)
(***************************************************************************)
\* a user_joined handler that sends nothing to its client
user_joined_silent(c, event) == <<>>

user_joined(c, event) ==
    <<Frame("user_joined", Null, Null, event.user_id, event.username, Null,
            event.src, event.idx)>>

user_left(c, event) ==
    <<Frame("user_left", Null, Null, event.user_id, event.username, Null,
            event.src, event.idx)>>

\* webrtc_offer without the target filter
webrtc_offer_unfiltered(c, event) ==
    <<Frame("webrtc_offer", event.payload, event.sender_id, Null, Null,
            Null, event.src, event.idx)>>

webrtc_offer(c, event) ==
    IF event.target_id = StrId(Scope[c].user) \/ ~PyTruthy(event.target_id)
    THEN <<Frame("webrtc_offer", event.payload, event.sender_id, Null, Null,
                 Null, event.src, event.idx)>>
    ELSE <<>>

\* webrtc_answer with the filter of webrtc_offer (also sent when the event
\* has no target)
webrtc_answer_as_offer(c, event) ==
    IF event.target_id = StrId(Scope[c].user) \/ ~PyTruthy(event.target_id)
    THEN <<Frame("webrtc_answer", event.payload, event.sender_id, Null, Null,
                 Null, event.src, event.idx)>>
    ELSE <<>>

webrtc_answer(c, event) ==
    IF event.target_id = StrId(Scope[c].user)
    THEN <<Frame("webrtc_answer", event.payload, event.sender_id, Null, Null,
                 Null, event.src, event.idx)>>
    ELSE <<>>

\* ice_candidate without the target filter
ice_candidate_unfiltered(c, event) ==
    <<Frame("ice_candidate", event.payload, event.sender_id, Null, Null,
            Null, event.src, event.idx)>>

ice_candidate(c, event) ==
    IF event.target_id = StrId(Scope[c].user) \/ ~PyTruthy(event.target_id)
    THEN <<Frame("ice_candidate", event.payload, event.sender_id, Null, Null,
                 Null, event.src, event.idx)>>
    ELSE <<>>

quality_change(c, event) ==
    <<Frame("quality_change", event.payload, event.sender_id, Null, Null,
            Null, event.src, event.idx)>>

screen_share_start(c, event) ==
    <<Frame("screen_share_start", Null, event.sender_id, Null, event.username,
            Null, event.src, event.idx)>>

screen_share_stop(c, event) ==
    <<Frame("screen_share_stop", Null, event.sender_id, Null, event.username,
            Null, event.src, event.idx)>>

\* the consumer's dispatch of a channel-layer event to the method named by
\* its type
handler_frames(c, event) ==
    CASE event.type = "user_joined"        -> user_joined(c, event)
      [] event.type = "user_left"          -> user_left(c, event)
      [] event.type = "webrtc_offer"       -> webrtc_offer(c, event)
      [] event.type = "webrtc_answer"      -> webrtc_answer(c, event)
      [] event.type = "ice_candidate"      -> ice_candidate(c, event)
      [] event.type = "quality_change"     -> quality_change(c, event)
      [] event.type = "screen_share_start" -> screen_share_start(c, event)
      [] event.type = "screen_share_stop"  -> screen_share_stop(c, event)

(***************************************************************************)
(* Actions.                                                                *)
(***************************************************************************)
RECURSIVE SumLen(_, _)
SumLen(f, S) ==
    IF S = {} THEN 0
    ELSE LET c == CHOOSE x \in S : TRUE IN Len(f[c]) + SumLen(f, S \ {c})

NumMsgs == SumLen(rcvd, Conns)

\* how many user_left events disconnect has sent for connection c
NumLeaves(c) ==
    Cardinality({k \in DOMAIN sends :
                    sends[k].event.type = "user_left" /\ sends[k].event.src = c})

\* what connect passes to close(): no code, which is code=None
close_argument == Null

\* connect, anonymous user: close() and return
connect_anonymous(c) ==
    /\ cstate[c] = "idle"
    /\ c \in ScenarioConns(env)
    /\ is_anonymous(Scope[c].user)
    /\ cstate' = [cstate EXCEPT ![c] = "rejected"]
    /\ close_code' = [close_code EXCEPT ![c] = close_argument]
    /\ UNCHANGED <<service_vars, quality_vars, env, ignored, held, pc, dbops, undelivered, racer, groups, inbox, participants, sent, sends, rcvd>>

\* the user_joined event connect sends
joined_event(c) ==
    Event("user_joined", Null, Null, Null, StrId(Scope[c].user),
          Username(Scope[c].user), c, 0)

\* the user_left event disconnect sends
left_event(c) ==
    Event("user_left", Null, Null, Null, StrId(Scope[c].user),
          Username(Scope[c].user), c, 0)

\* connect, authenticated user, up to its third await: group_add, accept
connect_group_add(c) ==
    /\ cstate[c] = "idle"
    /\ pc[c] = AtRest
    /\ c \in ScenarioConns(env)
    /\ ~is_anonymous(Scope[c].user)
    /\ groups' = group_add(groups, CallGroupName(Scope[c].call_id), c)
    /\ pc' = [pc EXCEPT ![c] = "add_participant_to_call"]
    /\ UNCHANGED <<service_vars, quality_vars, env, ignored, held, dbops, undelivered, cstate,
                   close_code, racer, inbox, participants, sent, sends, rcvd>>

\* connect resumes in the database thread: CallSession.objects.get and the
\* get of get_or_create. CallSession.DoesNotExist ends the function
add_participant_to_call_get(c) ==
    /\ pc[c] = "add_participant_to_call"
    /\ LET row == Row(participants, Scope[c].call_id, Scope[c].user)
       IN IF Scope[c].call_id \notin ExistingCalls
          THEN /\ pc' = [pc EXCEPT ![c] = "group_send_joined"]
               /\ dbops' = Append(dbops, DbOp("add_participant_to_call",
                                              Scope[c].call_id, Scope[c].user))
               /\ UNCHANGED held
          ELSE /\ pc' = [pc EXCEPT ![c] =
                             IF row.exists THEN "add_participant_save"
                             ELSE "add_participant_create"]
               /\ held' = [held EXCEPT ![c] = row]
               /\ UNCHANGED dbops
    /\ UNCHANGED <<service_vars, quality_vars, env, ignored, undelivered, cstate,
                   close_code, racer, groups, inbox, participants, sent, sends,
                   rcvd>>

\* get_or_create after DoesNotExist: the INSERT; created, the function ends
add_participant_to_call_create(c) ==
    /\ pc[c] = "add_participant_create"
    /\ LET row == participants[Scope[c].call_id, Scope[c].user]
       IN IF create_outcome(row) = "done"
          THEN /\ participants' =
                      [participants EXCEPT ![Scope[c].call_id, Scope[c].user] =
                          created_row]
               /\ pc' = [pc EXCEPT ![c] = "group_send_joined"]
               /\ dbops' = Append(dbops, DbOp("add_participant_to_call",
                                              Scope[c].call_id, Scope[c].user))
          ELSE /\ pc' = [pc EXCEPT ![c] = "add_participant_reget"]
               /\ UNCHANGED <<participants, dbops>>
    /\ UNCHANGED <<service_vars, quality_vars, env, ignored, undelivered, held, cstate,
                   close_code, racer, groups, inbox, sent, sends, rcvd>>

\* get_or_create after IntegrityError: get again (rows are never deleted, so
\* the row is there)
add_participant_to_call_reget(c) ==
    /\ pc[c] = "add_participant_reget"
    /\ held' = [held EXCEPT ![c] = participants[Scope[c].call_id, Scope[c].user]]
    /\ pc' = [pc EXCEPT ![c] = "add_participant_save"]
    /\ UNCHANGED <<service_vars, quality_vars, env, ignored, dbops, undelivered, cstate,
                   close_code, racer, groups, inbox, participants, sent, sends,
                   rcvd>>

\* not created: is_active = True on the object that was read; save()
add_participant_to_call_save(c) ==
    /\ pc[c] = "add_participant_save"
    /\ participants' =
           [participants EXCEPT ![Scope[c].call_id, Scope[c].user] =
               reactivated("add_participant_to_call", held[c])]
    /\ held' = [held EXCEPT ![c] = NoRow]
    /\ dbops' = Append(dbops, DbOp("add_participant_to_call",
                                   Scope[c].call_id, Scope[c].user))
    /\ pc' = [pc EXCEPT ![c] = "group_send_joined"]
    /\ UNCHANGED <<service_vars, quality_vars, env, ignored, undelivered, cstate,
                   close_code, racer, groups, inbox, sent, sends, rcvd>>

\* connect when add_participant_to_call raises anything but
\* CallSession.DoesNotExist (the database fails under it): group_add and
\* accept have run, the exception leaves connect before group_send
connect_raises(c) ==
    /\ pc[c] = "add_participant_to_call"
    /\ env \in FaultScenarios
    /\ cstate' = [cstate EXCEPT ![c] = "aborted"]
    /\ pc' = [pc EXCEPT ![c] = AtRest]
    /\ UNCHANGED <<service_vars, quality_vars, env, ignored, held, dbops, undelivered,
                   close_code, racer, groups, inbox, participants, sent, sends,
                   rcvd>>

\* connect resumes: group_send(user_joined), and connect returns
connect_group_send(c) ==
    /\ pc[c] = "group_send_joined"
    /\ LET g == CallGroupName(Scope[c].call_id)
       IN /\ inbox' = group_send(inbox, groups, g, joined_event(c))
          /\ sends' = Append(sends, SendRec(groups, g, joined_event(c)))
    /\ cstate' = [cstate EXCEPT ![c] = "open"]
    /\ pc' = [pc EXCEPT ![c] = AtRest]
    /\ UNCHANGED <<service_vars, quality_vars, env, ignored, held, dbops, undelivered,
                   close_code, racer, groups, participants, sent, rcvd>>

connect(c) ==
    \/ connect_anonymous(c)
    \/ connect_group_add(c)
    \/ add_participant_to_call_get(c)
    \/ add_participant_to_call_create(c)
    \/ add_participant_to_call_reget(c)
    \/ add_participant_to_call_save(c)
    \/ connect_raises(c)
    \/ connect_group_send(c)

\* the connections on which disconnect has been invoked
TornDown ==
    {c \in Conns :
        \/ cstate[c] \in {"closed", "failed"}
        \/ pc[c] \in {"remove_participant_save", "group_send_left",
                     "group_discard"}}

NumDisconnects == Cardinality(TornDown)

\* a websocket.disconnect comes for a connection: when the socket goes
\* away, and in the scenarios with repeated teardown also after disconnect
\* has run or connect has raised
disconnect_signalled(c) ==
    /\ pc[c] = AtRest
    /\ \/ /\ cstate[c] \in {"open", "rejected"}
          /\ NumDisconnects < ScenarioDisconnects(env)
       \/ /\ cstate[c] \in {"closed", "aborted"}
          /\ env \in RepeatScenarios
          /\ ignored[c] < MaxRepeats

\* a consumer that stays after disconnect has run, and runs it again
takes_disconnect_again(st) == st \in {"open", "rejected", "closed"}

\* a consumer that stays after connect has raised, and runs disconnect
takes_disconnect_aborted(st) == st \in {"open", "rejected", "aborted"}

\* whether the consumer of a connection in state st is there to take a
\* websocket.disconnect: websocket_disconnect of AsyncWebsocketConsumer
\* awaits disconnect and raises StopConsumer, which ends the consumer, and
\* an exception that leaves connect ends it too
takes_disconnect(st) == st \in {"open", "rejected"}

\* disconnect is invoked on a connection
disconnect_invoked(c) ==
    /\ disconnect_signalled(c)
    /\ takes_disconnect(cstate[c])

\* a websocket.disconnect for a connection whose consumer has stopped: no
\* handler runs
disconnect_ignored(c) ==
    /\ disconnect_signalled(c)
    /\ ~takes_disconnect(cstate[c])
    /\ ignored' = [ignored EXCEPT ![c] = @ + 1]
    /\ UNCHANGED <<service_vars, quality_vars, env, held, pc, dbops,
                   undelivered, cstate, close_code, racer, groups, inbox,
                   participants, sent, sends, rcvd>>

\* disconnect when remove_participant_from_call raises (the lookup itself,
\* or the database under it): nothing after it runs
disconnect_raises(c) ==
    /\ disconnect_invoked(c)
    /\ remove_participant_raises(Scope[c].user) \/ env \in FaultScenarios
    /\ cstate' = [cstate EXCEPT ![c] = "failed"]
    /\ UNCHANGED <<service_vars, quality_vars, env, ignored, held, pc, dbops, undelivered,
                   close_code, racer, groups, inbox, participants, sent, sends,
                   rcvd>>

\* disconnect, in the database thread: the get of
\* remove_participant_from_call. CallParticipant.DoesNotExist ends the
\* function
remove_participant_from_call_get(c) ==
    /\ disconnect_invoked(c)
    /\ ~remove_participant_raises(Scope[c].user)
    /\ LET row == Row(participants, Scope[c].call_id, Scope[c].user)
       IN IF row.exists
          THEN /\ held' = [held EXCEPT ![c] = row]
               /\ pc' = [pc EXCEPT ![c] = "remove_participant_save"]
               /\ UNCHANGED dbops
          ELSE /\ pc' = [pc EXCEPT ![c] = "group_send_left"]
               /\ dbops' = Append(dbops, DbOp("remove_participant_from_call",
                                              Scope[c].call_id, Scope[c].user))
               /\ UNCHANGED held
    /\ UNCHANGED <<service_vars, quality_vars, env, ignored, undelivered, cstate,
                   close_code, racer, groups, inbox, participants, sent, sends,
                   rcvd>>

\* is_active = False on the object that was read; save()
remove_participant_from_call_save(c) ==
    /\ pc[c] = "remove_participant_save"
    /\ participants' =
           [participants EXCEPT ![Scope[c].call_id, Scope[c].user] =
               marked_left(held[c])]
    /\ held' = [held EXCEPT ![c] = NoRow]
    /\ dbops' = Append(dbops, DbOp("remove_participant_from_call",
                                   Scope[c].call_id, Scope[c].user))
    /\ pc' = [pc EXCEPT ![c] = "group_send_left"]
    /\ UNCHANGED <<service_vars, quality_vars, env, ignored, undelivered, cstate,
                   close_code, racer, groups, inbox, sent, sends, rcvd>>

\* disconnect resumes: group_send(user_left)
disconnect_group_send(c) ==
    /\ pc[c] = "group_send_left"
    /\ LET g == CallGroupName(Scope[c].call_id)
       IN /\ inbox' = group_send(inbox, groups, g, left_event(c))
          /\ sends' = Append(sends, SendRec(groups, g, left_event(c)))
    /\ pc' = [pc EXCEPT ![c] = "group_discard"]
    /\ UNCHANGED <<service_vars, quality_vars, env, ignored, held, dbops, undelivered, cstate,
                   close_code, racer, groups, participants, sent, rcvd>>

\* disconnect resumes: group_discard, and disconnect returns
disconnect_group_discard(c) ==
    /\ pc[c] = "group_discard"
    /\ groups' = group_discard(groups, CallGroupName(Scope[c].call_id), c)
    /\ cstate' = [cstate EXCEPT ![c] = "closed"]
    /\ pc' = [pc EXCEPT ![c] = AtRest]
    /\ UNCHANGED <<service_vars, quality_vars, env, ignored, held, dbops, undelivered,
                   close_code, racer, inbox, participants, sent, sends, rcvd>>

disconnect(c) ==
    \/ disconnect_ignored(c)
    \/ disconnect_raises(c)
    \/ remove_participant_from_call_get(c)
    \/ remove_participant_from_call_save(c)
    \/ disconnect_group_send(c)
    \/ disconnect_group_discard(c)

\* receive(text_data) on an open connection
receive(c, text) ==
    /\ cstate[c] = "open"
    /\ pc[c] = AtRest
    /\ c \in ScenarioSenders(env)
    /\ text \in ScenarioTexts(env)
    /\ NumMsgs < ScenarioMsgs(env)
    /\ LET idx == Len(rcvd[c]) + 1
           g == CallGroupName(Scope[c].call_id)
           evs == IF text.form = "object" THEN receive_events(c, text, idx)
                  ELSE <<>>
       IN /\ rcvd' = [rcvd EXCEPT ![c] = Append(@, text)]
          /\ sent' = [sent EXCEPT ![c] = @ \o receive_error_reply(c, text, idx)]
          /\ cstate' = [cstate EXCEPT ![c] =
                           IF receive_raises(text) THEN "crashed" ELSE @]
          /\ IF evs = <<>>
             THEN UNCHANGED <<inbox, sends>>
             ELSE /\ inbox' = group_send(inbox, groups, g, evs[1])
                  /\ sends' = Append(sends, SendRec(groups, g, evs[1]))
    /\ UNCHANGED <<service_vars, quality_vars, env, ignored, held, pc, dbops, undelivered, close_code, racer, groups, participants>>

\* the consumer of an open connection takes the next event from its channel
\* and runs the handler for it
dispatch(c) ==
    /\ cstate[c] = "open"
    /\ pc[c] = AtRest
    /\ inbox[c] # <<>>
    /\ sent' = [sent EXCEPT ![c] = @ \o handler_frames(c, Head(inbox[c]))]
    /\ inbox' = [inbox EXCEPT ![c] = Tail(@)]
    /\ UNCHANGED <<service_vars, quality_vars, env, ignored, held, pc, dbops, undelivered, close_code, racer, cstate, groups, participants, sends, rcvd>>

\* the scenarios in which self.send of a group handler may fail: the client
\* went away while the event waited in the channel
SendFaultScenarios == {"fanout"}

\* the consumer of an open connection takes the next event from its channel
\* and self.send raises in the handler: the exception ends this consumer,
\* the event it had taken is not sent, disconnect is not called
dispatch_raises(c) ==
    /\ env \in SendFaultScenarios
    /\ cstate[c] = "open"
    /\ pc[c] = AtRest
    /\ inbox[c] # <<>>
    /\ handler_frames(c, Head(inbox[c])) # <<>>
    /\ inbox' = [inbox EXCEPT ![c] = Tail(@)]
    /\ undelivered' = [undelivered EXCEPT ![c] = Append(@, Head(inbox[c]))]
    /\ cstate' = [cstate EXCEPT ![c] = "broken"]
    /\ UNCHANGED <<service_vars, quality_vars, env, ignored, held, pc, dbops, close_code, racer,
                   groups, participants, sent, sends, rcvd>>

\* the views that lead into a call
ViewKinds == {"call_room", "join_call"}

\* call_room and join_call on a call whose status is 'ended': an error
\* message and a redirect to the dashboard, before any get_or_create
view_redirects(r, kind) ==
    /\ env = "ended"
    /\ racer[r].pc = "idle"
    /\ kind \in ViewKinds
    /\ Status(EndedCall) = "ended"
    /\ racer' = [racer EXCEPT ![r] =
                    [kind |-> kind, pc |-> "redirected", obj |-> NoRow,
                     conflict |-> FALSE]]
    /\ UNCHANGED <<service_vars, quality_vars, env, ignored, held, pc, dbops, undelivered, cstate, groups, inbox,
                   participants, close_code, sent, sends, rcvd>>

(***************************************************************************)
(* Two get_or_create calls for the same call and user, statement by        *)
(* statement: the SELECT, the INSERT under the unique_together constraint, *)
(* the second SELECT after an IntegrityError, and what the caller does     *)
(* with the row it was given.                                              *)
(***************************************************************************)
\* get_or_create, first statement: get(call_session, user)
get_or_create_get(r, kind) ==
    /\ env = "race"
    /\ racer[r].pc = "idle"
    /\ LET row == participants[RaceCall, RaceUser]
       IN racer' = [racer EXCEPT ![r] =
                       [kind |-> kind,
                        pc |-> IF row.exists THEN "got" ELSE "missing",
                        obj |-> row,
                        conflict |-> FALSE]]
    /\ UNCHANGED <<service_vars, quality_vars, env, ignored, held, pc, dbops, undelivered, cstate, groups, inbox, participants, close_code,
                   sent, sends, rcvd>>

\* get_or_create after DoesNotExist: create(call_session, user, is_active=True)
get_or_create_create(r) ==
    /\ racer[r].pc = "missing"
    /\ LET row == participants[RaceCall, RaceUser]
           new == created_row
       IN /\ racer' = [racer EXCEPT ![r].pc = create_outcome(row),
                                    ![r].obj = IF row.exists THEN @ ELSE new,
                                    ![r].conflict = row.exists]
          /\ participants' = IF row.exists THEN participants
                             ELSE [participants EXCEPT ![RaceCall, RaceUser] = new]
    /\ UNCHANGED <<service_vars, quality_vars, env, ignored, held, pc, dbops, undelivered, cstate, groups, inbox, close_code, sent, sends, rcvd>>

\* get_or_create after IntegrityError: get again, and raise the
\* IntegrityError when there is still no row
get_or_create_reget(r) ==
    /\ racer[r].pc = "conflict"
    /\ LET row == participants[RaceCall, RaceUser]
       IN racer' = [racer EXCEPT ![r].pc = IF row.exists THEN "got" ELSE "raised",
                                 ![r].obj = row]
    /\ UNCHANGED <<service_vars, quality_vars, env, ignored, held, pc, dbops, undelivered, cstate, groups, inbox, participants, close_code,
                   sent, sends, rcvd>>

\* not created: the caller's reactivation of the row it holds
reactivate(r) ==
    /\ racer[r].pc = "got"
    /\ racer' = [racer EXCEPT ![r].pc = "done"]
    /\ participants' =
           IF reactivate_saves(racer[r].kind, racer[r].obj)
           THEN [participants EXCEPT ![RaceCall, RaceUser] =
                    reactivated(racer[r].kind, racer[r].obj)]
           ELSE participants
    /\ UNCHANGED <<service_vars, quality_vars, env, ignored, held, pc, dbops, undelivered, cstate, groups, inbox, close_code, sent, sends, rcvd>>

Next ==
    \/ \E c \in Conns : connect(c)
    \/ \E c \in Conns : disconnect(c)
    \/ \E c \in Conns, text \in Texts : receive(c, text)
    \/ \E r \in Racers, kind \in RacerKinds : get_or_create_get(r, kind)
    \/ \E r \in Racers : get_or_create_create(r)
    \/ \E r \in Racers : get_or_create_reget(r)
    \/ \E r \in Racers : reactivate(r)
    \/ \E c \in Conns : dispatch(c)
    \/ \E c \in Conns : dispatch_raises(c)
    \/ \E r \in Racers, kind \in ViewKinds : view_redirects(r, kind)

Spec == Init /\ [][Next]_vars

(***************************************************************************)
(* The start_call view (apps/calls/views.py) and CallService               *)
(* (apps/calls/services.py) over the CallSession rows and the cache.       *)
(***************************************************************************)
\* the users that use the views and the service in a run
ServiceUsers == {"u1", "u2"}

\* what a start_call POST may carry as target_username: nothing, the name
\* of a user, or a name no user has
TargetNames == {Null, "alice", "ghost"}

\* what may go wrong in the cache under get_active_calls: nothing, cache.get
\* raises, cache.set raises
CacheFaults == {"none", "get", "set"}

\* User.objects.get(username=name): the users of that name
UsersNamed(name) == {u \in Users : Username(u) = name}

\* an entry of the log, appended when the call ends; began is the length of
\* the log when the call was made
LogEntry(op, user, arg, session, outcome, out, db, began) ==
    [op |-> op, user |-> user, arg |-> arg, session |-> session,
     outcome |-> outcome, out |-> out, db |-> db, began |-> began]

\* the code that adds a user to a call someone started: the views call_room
\* and join_call, and add_participant_to_call of the consumer
EntryKinds == {"call_room", "join_call", "add_participant_to_call"}

\* what a run of the views and the service is about
ServiceScenarios == {"caching", "faults", "targets", "entry", "ending"}

\* the start_call POSTs made in a run: the user and the target_username
ScenarioStarts(s) ==
    IF s = "targets" THEN ServiceUsers \X TargetNames ELSE {<<"u1", Null>>}

\* the code by which users enter a call someone started, and the users
ScenarioEntries(s) ==
    CASE s = "entry"  -> EntryKinds \X {"u2"}
      [] s = "ending" -> EntryKinds \X {"u2"}
      [] OTHER        -> {}

\* the get_active_calls calls made in a run: the user, and what goes wrong
\* in the cache
ScenarioQueries(s) ==
    CASE s = "caching" -> {<<"u1", "none">>}
      [] s = "faults"  -> {"u1"} \X CacheFaults
      [] s = "targets" -> ServiceUsers \X {"none"}
      [] s = "entry"   -> {<<"u2", "none">>}
      [] s = "ending"  -> {<<"u1", "none">>}

\* whether cache entries are deleted, and calls ended, in a run
ScenarioDeletes(s) == s = "caching"
ScenarioEnds(s) == s = "ending"

\* how many view and service calls are made in a run
ScenarioCalls(s) ==
    IF s \in {"caching", "faults"} THEN MaxLog ELSE MaxLogShared

\* the calls made and not yet over
InFlight == {q \in Requests : reqs[q].pc # "idle"}

\* a view or service call may be made by a thread that has none under way
CanBegin(q) ==
    /\ env \in ServiceScenarios
    /\ reqs[q].pc = "idle"
    /\ Len(log) + Cardinality(InFlight) < ScenarioCalls(env)
    /\ q = "q2" => reqs["q1"].pc # "idle"

\* the call of thread q under way, at statement pc
Request(op, u, arg, s, pc_) ==
    [op |-> op, user |-> u, arg |-> arg, session |-> s, pc |-> pc_,
     began |-> Len(log), calls |-> {}]

\* the call of thread q is over
Ends(q, outcome, out, db) ==
    /\ log' = Append(log, LogEntry(reqs[q].op, reqs[q].user, reqs[q].arg,
                                   reqs[q].session, outcome, out, db,
                                   reqs[q].began))
    /\ reqs' = [reqs EXCEPT ![q] = NoRequest]

\* CallParticipant.objects.create raises IntegrityError when the session
\* has a row of the user: unique_together refuses the second
start_call_raises(parts, u) == u \in parts

\* the id of the next session: ids are told apart and nothing else, so the
\* first one not in use stands for any fresh one
NextSessionId ==
    IF ~sessions["s1"].exists THEN "s1"
    ELSE IF ~sessions["s2"].exists THEN "s2" ELSE Null

\* start_call, POST by user u with target_username name, up to its first
\* INSERT: User.objects.get, then CallSession.objects.create
start_call(q, u, name) ==
    /\ CanBegin(q)
    /\ <<u, name>> \in ScenarioStarts(env)
    /\ IF PyTruthy(name) /\ UsersNamed(name) = {}
       THEN \* User.DoesNotExist: error message, the form is rendered again
            /\ log' = Append(log, LogEntry("start_call", u, name, Null,
                                           "rendered", {}, {}, Len(log)))
            /\ UNCHANGED <<sessions, reqs>>
       ELSE \* the new session gets a fresh random id
            \E s \in SessionIds :
               /\ s = NextSessionId
               /\ sessions' = [sessions EXCEPT ![s] =
                      [exists |-> TRUE, initiator |-> u, status |-> "waiting",
                       ended_at |-> Null, participants |-> {}]]
               /\ reqs' = [reqs EXCEPT ![q] =
                      Request("start_call", u, name, s, "create_initiator")]
               /\ UNCHANGED log
    /\ UNCHANGED <<consumer_vars, quality_vars, cache>>

\* start_call: CallParticipant.objects.create for request.user; without a
\* target the redirect follows
start_call_create_initiator(q) ==
    /\ reqs[q].pc = "create_initiator"
    /\ LET s == reqs[q].session
           u == reqs[q].user
       IN IF start_call_raises(sessions[s].participants, u)
          THEN /\ Ends(q, "raised", sessions[s].participants, {})
               /\ UNCHANGED sessions
          ELSE /\ sessions' = [sessions EXCEPT ![s].participants = @ \cup {u}]
               /\ IF PyTruthy(reqs[q].arg)
                  THEN /\ reqs' = [reqs EXCEPT ![q].pc = "create_target"]
                       /\ UNCHANGED log
                  ELSE Ends(q, "redirect", sessions'[s].participants, {})
    /\ UNCHANGED <<consumer_vars, quality_vars, cache>>

\* start_call: CallParticipant.objects.create for target_user, then the
\* redirect
start_call_create_target(q) ==
    /\ reqs[q].pc = "create_target"
    /\ LET s == reqs[q].session
       IN \E t \in UsersNamed(reqs[q].arg) :
             IF start_call_raises(sessions[s].participants, t)
             THEN /\ Ends(q, "raised", sessions[s].participants, {})
                  /\ UNCHANGED sessions
             ELSE /\ sessions' = [sessions EXCEPT ![s].participants = @ \cup {t}]
                  /\ Ends(q, "redirect", sessions'[s].participants, {})
    /\ UNCHANGED <<consumer_vars, quality_vars, cache>>

\* user u enters call s: the session is read, and the views turn away from
\* a call whose status is 'ended'
session_get(q, kind, u, s) ==
    /\ CanBegin(q)
    /\ <<kind, u>> \in ScenarioEntries(env)
    /\ sessions[s].exists
    /\ IF kind \in ViewKinds /\ sessions[s].status = "ended"
       THEN /\ log' = Append(log, LogEntry(kind, u, Null, s, "redirected",
                                           sessions[s].participants, {},
                                           Len(log)))
            /\ UNCHANGED reqs
       ELSE /\ reqs' = [reqs EXCEPT ![q] =
                           Request(kind, u, Null, s, "get_or_create")]
            /\ UNCHANGED log
    /\ UNCHANGED <<consumer_vars, quality_vars, sessions, cache>>

\* get_or_create, first statement: get(call_session, user)
participant_get(q) ==
    /\ reqs[q].pc = "get_or_create"
    /\ IF reqs[q].user \in sessions[reqs[q].session].participants
       THEN Ends(q, "entered", sessions[reqs[q].session].participants, {})
       ELSE /\ reqs' = [reqs EXCEPT ![q].pc = "create"]
            /\ UNCHANGED log
    /\ UNCHANGED <<consumer_vars, quality_vars, sessions, cache>>

\* get_or_create after DoesNotExist: the INSERT; an IntegrityError is
\* followed by a get that finds the row
participant_create(q) ==
    /\ reqs[q].pc = "create"
    /\ sessions' = [sessions EXCEPT ![reqs[q].session].participants =
                       @ \cup {reqs[q].user}]
    /\ Ends(q, "entered", sessions'[reqs[q].session].participants, {})
    /\ UNCHANGED <<consumer_vars, quality_vars, cache>>

\* CallSession.objects.filter(participants__id=user_id, ended_at__isnull=True)
active_calls_query(sess, u) ==
    {s \in SessionIds :
        /\ sess[s].exists
        /\ u \in sess[s].participants
        /\ sess[s].ended_at = Null}

\* how many get_active_calls calls met a failing cache, or will
NumFaults ==
    Cardinality({i \in DOMAIN log :
                    log[i].op = "get_active_calls" /\ log[i].arg # "none"})
    + Cardinality({q \in InFlight :
                    reqs[q].op = "get_active_calls" /\ reqs[q].arg # "none"})

\* `if not calls`: cache.get returned None or an empty result
cache_miss(entry) == ~entry.present \/ entry.calls = {}

\* CallService.get_active_calls(user_id), up to `if not calls`: cache.get,
\* and the return of what it gave
get_active_calls(q, u, fault) ==
    /\ CanBegin(q)
    /\ <<u, fault>> \in ScenarioQueries(env)
    /\ fault = "set" => cache_miss(cache[u])
    /\ fault # "none" => NumFaults < MaxFaults
    /\ LET db == active_calls_query(sessions, u)
       IN IF fault = "get"
          THEN /\ log' = Append(log, LogEntry("get_active_calls", u, fault,
                                    Null, "raised", {}, db, Len(log)))
               /\ UNCHANGED reqs
          ELSE IF cache_miss(cache[u])
          THEN /\ reqs' = [reqs EXCEPT ![q] =
                      Request("get_active_calls", u, fault, Null, "filter")]
               /\ UNCHANGED log
          ELSE /\ log' = Append(log, LogEntry("get_active_calls", u, fault,
                                    Null, "returned", cache[u].calls, db,
                                    Len(log)))
               /\ UNCHANGED reqs
    /\ UNCHANGED <<consumer_vars, quality_vars, sessions, cache>>

\* get_active_calls after a miss: cache.set raises, or it evaluates the
\* query to pickle its result
get_active_calls_filter(q) ==
    /\ reqs[q].pc = "filter"
    /\ LET db == active_calls_query(sessions, reqs[q].user)
       IN IF reqs[q].arg = "set"
          THEN Ends(q, "raised", {}, db)
          ELSE /\ reqs' = [reqs EXCEPT ![q].pc = "cache_set",
                                         ![q].calls = db]
               /\ UNCHANGED log
    /\ UNCHANGED <<consumer_vars, quality_vars, sessions, cache>>

\* get_active_calls: cache.set stores the result for 300 seconds, and the
\* result is returned
get_active_calls_cache_set(q) ==
    /\ reqs[q].pc = "cache_set"
    /\ cache' = [cache EXCEPT ![reqs[q].user] =
                    [present |-> TRUE, calls |-> reqs[q].calls]]
    /\ Ends(q, "returned", reqs[q].calls, reqs[q].calls)
    /\ UNCHANGED <<consumer_vars, quality_vars, sessions>>

\* a single statement may be run
CanRun ==
    /\ env \in ServiceScenarios
    /\ Len(log) + Cardinality(InFlight) < ScenarioCalls(env)

\* the cache entry of u is deleted, or its 300 seconds are over
cache_delete(u) ==
    /\ CanRun
    /\ ScenarioDeletes(env)
    /\ cache[u].present
    /\ cache' = [cache EXCEPT ![u] = NoEntry]
    /\ log' = Append(log, LogEntry("delete", u, Null, Null, "done", {}, {},
                                   Len(log)))
    /\ UNCHANGED <<consumer_vars, quality_vars, sessions, reqs>>

\* how many calls were ended
NumEnds == Cardinality({i \in DOMAIN log : log[i].op = "end_call"})

\* what a writer of a CallSession row sets in one save() to end the call:
\* the status, ended_at, or both
EndWrites == {"status", "ended_at", "both"}

\* a call is ended, by the admin site or as the tests do it (no view does):
\* one save() of its row that sets status 'ended', ended_at, or both
end_call(s, write) ==
    /\ CanRun
    /\ ScenarioEnds(env)
    /\ NumEnds < MaxEnds
    /\ sessions[s].exists
    /\ \/ write \in {"status", "both"} /\ sessions[s].status # "ended"
       \/ write \in {"ended_at", "both"} /\ sessions[s].ended_at = Null
    /\ sessions' =
           [sessions EXCEPT
               ![s].status = IF write \in {"status", "both"} THEN "ended" ELSE @,
               ![s].ended_at = IF write \in {"ended_at", "both"} THEN "t1" ELSE @]
    /\ log' = Append(log, LogEntry("end_call", Null, write, s, "done", {}, {},
                                   Len(log)))
    /\ UNCHANGED <<consumer_vars, quality_vars, cache, reqs>>

ServiceInit ==
    /\ env \in ServiceScenarios
    /\ ConsumerIdle
    /\ participants = [k \in ExistingCalls, u \in Users |-> NoRow]
    /\ ServiceIdle
    /\ QualityIdle

ServiceNext ==
    \/ \E q \in Requests, u \in ServiceUsers, name \in TargetNames :
          start_call(q, u, name)
    \/ \E q \in Requests : start_call_create_initiator(q)
    \/ \E q \in Requests : start_call_create_target(q)
    \/ \E q \in Requests, kind \in EntryKinds, u \in ServiceUsers,
          s \in SessionIds : session_get(q, kind, u, s)
    \/ \E q \in Requests : participant_get(q)
    \/ \E q \in Requests : participant_create(q)
    \/ \E s \in SessionIds, write \in EndWrites : end_call(s, write)
    \/ \E q \in Requests, u \in ServiceUsers, fault \in CacheFaults :
          get_active_calls(q, u, fault)
    \/ \E q \in Requests : get_active_calls_filter(q)
    \/ \E q \in Requests : get_active_calls_cache_set(q)
    \/ \E u \in ServiceUsers : cache_delete(u)

ServiceSpec == ServiceInit /\ [][ServiceNext]_vars

(***************************************************************************)
(* QualityAdaptationService.get_optimal_quality (apps/calls/services.py),  *)
(* applied once to arguments drawn around its thresholds.                  *)
(***************************************************************************)
\* get_optimal_quality with the bandwidth thresholds taken inclusively
get_optimal_quality_inclusive(b, c) ==
    IF b <= 500 \/ c > 80 THEN "low"
    ELSE IF b <= 2000 \/ c > 60 THEN "medium"
    ELSE IF b <= 5000 THEN "high"
    ELSE "ultra"

get_optimal_quality(b, c) ==
    IF b < 500 \/ c > 80 THEN "low"
    ELSE IF b < 2000 \/ c > 60 THEN "medium"
    ELSE IF b < 5000 THEN "high"
    ELSE "ultra"

\* the arguments tried: bandwidths from 0 and around each threshold, every
\* CPU percentage
Bandwidths ==
    (0..BandwidthWindow)
        \cup {b \in 0..MaxBandwidth :
                 \E t \in {500, 2000, 5000} :
                     b + BandwidthWindow >= t /\ b <= t + BandwidthWindow}
        \cup {1000, MaxBandwidth}

CpuUsages == 0..MaxCpu

QualityInit ==
    /\ env = "quality"
    /\ ConsumerIdle
    /\ participants = [k \in ExistingCalls, u \in Users |-> NoRow]
    /\ ServiceIdle
    /\ bandwidth_kbps \in Bandwidths
    /\ cpu_usage_percent \in CpuUsages
    /\ quality = Null

\* the call get_optimal_quality(bandwidth_kbps, cpu_usage_percent)
call_get_optimal_quality ==
    /\ env = "quality"
    /\ quality = Null
    /\ quality' = get_optimal_quality(bandwidth_kbps, cpu_usage_percent)
    /\ UNCHANGED <<consumer_vars, service_vars, bandwidth_kbps, cpu_usage_percent>>

QualityNext == call_get_optimal_quality

QualitySpec == QualityInit /\ [][QualityNext]_vars

(***************************************************************************)
(* Vocabulary of the properties.                                           *)
(***************************************************************************)
UserOf(c) == Scope[c].user
CallOf(c) == Scope[c].call_id

\* the frames sent to the client of c
Frames(c) == {sent[c][i] : i \in DOMAIN sent[c]}

\* the client frame that caused event or frame x (x.idx > 0)
Cause(x) == rcvd[x.src][x.idx]

\* the group_send calls made for the i-th client frame of c
SendsFor(c, i) ==
    {k \in DOMAIN sends : sends[k].event.src = c /\ sends[k].event.idx = i}

\* the connections whose client got a frame relaying the i-th client frame
\* of c
RelayedTo(c, i) ==
    {d \in Conns : \E j \in DOMAIN sent[d] :
        /\ sent[d][j].src = c
        /\ sent[d][j].idx = i
        /\ sent[d][j].type # "error"}

\* positions in the channel of c where event ev waits
Pending(c, ev) == {i \in DOMAIN inbox[c] : inbox[c][i] = ev}

\* positions in the frames sent to c's client that deliver event ev
Delivered(c, ev) ==
    {i \in DOMAIN sent[c] :
        /\ sent[c][i].type = ev.type
        /\ sent[c][i].src = ev.src
        /\ sent[c][i].idx = ev.idx}

\* the k-th group_send went to the call group of c while c was a member of it
MemberAt(c, k) == c \in sends[k].members

\* c is live and was a member when the k-th group_send was made: the event
\* is waiting in its channel or has been delivered to its client, once
GotOnce(c, k) ==
    Cardinality(Pending(c, sends[k].event))
        + Cardinality(Delivered(c, sends[k].event)) = 1

RecognizedTypes == TargetedTypes \cup UntargetedTypes

(***************************************************************************)
(* Targeted and untargeted relay.                                          *)
(***************************************************************************)
\* C1 as stated: an offer sent with a target_id (any value but a missing or
\* null one) reaches only connections of the sender's call whose user id
\* equals the target_id.
C1_OfferWithAnyTargetOnlyToTarget ==
    \A c \in Conns : \A f \in Frames(c) :
        (f.type = "webrtc_offer" /\ Cause(f).target_id # Null)
            => /\ CallOf(c) = CallOf(f.src)
               /\ StrId(UserOf(c)) = Cause(f).target_id

\* C1 amended: an offer sent with a target_id that Python takes for true
\* (any value but null, "", 0, false, [] and {}) reaches only connections of
\* the sender's call whose user id equals the target_id; no connection of
\* another user and no connection of another call gets it.
C1_OfferWithTargetOnlyToTarget ==
    \A c \in Conns : \A f \in Frames(c) :
        (f.type = "webrtc_offer" /\ PyTruthy(Cause(f).target_id))
            => /\ CallOf(c) = CallOf(f.src)
               /\ StrId(UserOf(c)) = Cause(f).target_id

\* C1 witness: a targeted offer has been delivered to its target while a
\* member of the same call with another user id has emptied its channel
\* without getting it.
C1_Witness ==
    \E k \in DOMAIN sends : \E c, d \in Conns :
        /\ sends[k].event.type = "webrtc_offer"
        /\ PyTruthy(sends[k].event.target_id)
        /\ Delivered(c, sends[k].event) # {}
        /\ d # c /\ CallOf(d) = CallOf(c)
        /\ StrId(UserOf(d)) # sends[k].event.target_id
        /\ MemberAt(d, k) /\ cstate[d] = "open" /\ inbox[d] = <<>>
        /\ Delivered(d, sends[k].event) = {}

\* C2 as stated: an offer or ice_candidate sent without a target_id is queued
\* for or delivered to every other live member of the sender's call, and is
\* never delivered back to the connection that sent it.
C2_UntargetedNotBackToSender ==
    /\ \A k \in DOMAIN sends : \A c \in Conns :
           (/\ sends[k].event.type \in {"webrtc_offer", "ice_candidate"}
            /\ sends[k].event.target_id = Null
            /\ c # sends[k].event.src
            /\ MemberAt(c, k) /\ cstate[c] = "open")
               => GotOnce(c, k)
    /\ \A c \in Conns : \A f \in Frames(c) :
           (/\ f.type \in {"webrtc_offer", "ice_candidate"}
            /\ Cause(f).target_id = Null)
               => f.src # c

\* C3 as stated: with the connections of u1, u2 and u3 open in one call, a
\* quality_change frame carries the sender's user id and never reaches the
\* connection that sent it.
C3_QualityChangeNotToSender ==
    (\A c \in {"k1", "k2", "k3"} : cstate[c] = "open")
        => \A c \in {"k1", "k2", "k3"} : \A f \in Frames(c) :
               f.type = "quality_change"
                   => /\ f.sender_id = StrId(UserOf(f.src))
                      /\ f.src # c

\* C4: an answer sent with target_id T is queued for or delivered to, exactly
\* once, every live member of the sender's call whose user id is T, and no
\* connection of another user or another call gets it.
C4_AnswerToAllOfTarget ==
    /\ \A k \in DOMAIN sends : \A c \in Conns :
           (/\ sends[k].event.type = "webrtc_answer"
            /\ StrId(UserOf(c)) = sends[k].event.target_id
            /\ CallOf(c) = CallOf(sends[k].event.src)
            /\ MemberAt(c, k) /\ cstate[c] = "open")
               => GotOnce(c, k)
    /\ \A c \in Conns : \A f \in Frames(c) :
           f.type = "webrtc_answer"
               => /\ StrId(UserOf(c)) = Cause(f).target_id
                  /\ CallOf(c) = CallOf(f.src)

\* C4 witness: both connections of u2 have been sent the same answer, and
\* the sender, a third member, has emptied its channel without getting it.
C4_Witness ==
    \E k \in DOMAIN sends :
        /\ sends[k].event.type = "webrtc_answer"
        /\ sends[k].event.src = "k1"
        /\ Delivered("k2", sends[k].event) # {}
        /\ Delivered("k4", sends[k].event) # {}
        /\ cstate["k1"] = "open" /\ inbox["k1"] = <<>>

\* C5 as stated: an answer sent without a target_id gets an error reply to
\* its sender and is delivered to no connection.
C5_AnswerWithoutTargetIsError ==
    \A c \in Conns : \A i \in DOMAIN rcvd[c] :
        (rcvd[c][i].type = "answer" /\ rcvd[c][i].target_id = Null)
            => /\ \E f \in Frames(c) : f.type = "error" /\ f.idx = i
               /\ RelayedTo(c, i) = {}

\* C6: whatever the kind, an event or frame that originates from a connection
\* of one call is never queued for or delivered to a connection of another
\* call.
C6_CallIsolation ==
    \A c \in Conns :
        /\ \A f \in Frames(c) : CallOf(f.src) = CallOf(c)
        /\ \A i \in DOMAIN inbox[c] : CallOf(inbox[c][i].src) = CallOf(c)

\* C6 witness: a connection of call cB is open with an empty channel after a
\* frame was relayed in call cA to the user that also owns the cB connection.
C6_Witness ==
    \E k \in DOMAIN sends :
        /\ sends[k].event.idx > 0
        /\ CallOf(sends[k].event.src) = "cA"
        /\ sends[k].event.target_id = StrId(UserOf("k5"))
        /\ \E c \in Conns : Delivered(c, sends[k].event) # {}
        /\ \E j \in 1..(k - 1) : sends[j].event = joined_event("k5")
        /\ cstate["k5"] = "open" /\ inbox["k5"] = <<>>

(***************************************************************************)
(* Malformed, unknown and test-helper frames.                              *)
(***************************************************************************)
\* C7: text that cannot be parsed gets exactly one error reply to its sender,
\* causes no group_send and no relayed frame, leaves the connection running,
\* and every recognized frame the connection sends later is sent to the call
\* group exactly once.
C7_InvalidJsonOneErrorStaysOpen ==
    \A c \in Conns : \A i \in DOMAIN rcvd[c] :
        rcvd[c][i].form = "invalid"
            => /\ Cardinality({j \in DOMAIN sent[c] :
                      sent[c][j].type = "error" /\ sent[c][j].idx = i}) = 1
               /\ SendsFor(c, i) = {}
               /\ RelayedTo(c, i) = {}
               /\ (i = Len(rcvd[c]) => cstate[c] # "crashed")
               /\ \A j \in (i + 1)..Len(rcvd[c]) :
                      (rcvd[c][j].form = "object"
                          /\ rcvd[c][j].type \in RecognizedTypes)
                          => Cardinality(SendsFor(c, j)) = 1

\* C7 witness: a connection got the error reply for unparsable text, then
\* sent an offer that another connection has been sent.
C7_Witness ==
    \E c \in Conns :
        /\ Len(rcvd[c]) = 2
        /\ rcvd[c][1].form = "invalid"
        /\ rcvd[c][2].type = "offer"
        /\ \E f \in Frames(c) : f.type = "error" /\ f.idx = 1
        /\ \E d \in Conns \ {c} : \E f \in Frames(d) :
               f.type = "webrtc_offer" /\ f.src = c /\ f.idx = 2

\* C8: a well-formed frame whose type is none of the recognized ones causes
\* no group_send, no frame to any client (no reply, no error), and does not
\* stop the connection.
C8_UnknownTypeDropped ==
    \A c \in Conns : \A i \in DOMAIN rcvd[c] :
        (rcvd[c][i].form = "object" /\ rcvd[c][i].type \notin RecognizedTypes)
            => /\ SendsFor(c, i) = {}
               /\ \A d \in Conns : \A f \in Frames(d) :
                      ~(f.src = c /\ f.idx = i)
               /\ (i = Len(rcvd[c]) => cstate[c] # "crashed")

\* C8 witness: a connection has received a frame of unknown type while
\* another member of its call is open with an empty channel.
C8_Witness ==
    \E c \in Conns : \E i \in DOMAIN rcvd[c] :
        /\ rcvd[c][i].type = "unknown_message_type"
        /\ cstate[c] = "open" /\ inbox[c] = <<>>
        /\ \E d \in Conns \ {c} :
               /\ CallOf(d) = CallOf(c)
               /\ cstate[d] = "open" /\ inbox[d] = <<>>
               /\ sent[d] # <<>>

\* C9 as stated: a frame of type 'webrtc_offer' ('webrtc_answer'), as the
\* test helpers build it, causes exactly one group_send to the call group of
\* the connection, of that type and with the connection's user id as
\* sender_id.
C9_HelperFramesAreRelayed ==
    \A c \in Conns : \A i \in DOMAIN rcvd[c] :
        rcvd[c][i].type \in {"webrtc_offer", "webrtc_answer"}
            => /\ Cardinality(SendsFor(c, i)) = 1
               /\ \A k \in SendsFor(c, i) :
                      /\ sends[k].group = CallGroupName(CallOf(c))
                      /\ sends[k].event.type = rcvd[c][i].type
                      /\ sends[k].event.sender_id = StrId(UserOf(c))

(***************************************************************************)
(* Anonymous connections.                                                  *)
(***************************************************************************)
\* C10: over the whole life of a connection of an anonymous user, teardown
\* included, it is in no call group, nothing is queued for or sent to it, no
\* group_send is made on its behalf, and no step of it changes a group, a
\* channel or a participant row.
C10_AnonymousLeavesNoTrace ==
    [][\A c \in Conns : is_anonymous(UserOf(c)) =>
          /\ \A g \in GroupNames : c \notin groups'[g]
          /\ inbox'[c] = <<>> /\ sent'[c] = <<>>
          /\ \A k \in DOMAIN sends' : sends'[k].event.src # c
          /\ (cstate'[c] # cstate[c]
                 => UNCHANGED <<groups, inbox, participants, sends, sent>>)]_vars

\* C10 witness: the anonymous connection was rejected and torn down while a
\* member of the call it asked for is open.
C10_Witness ==
    /\ cstate["k6"] = "failed"
    /\ \E c \in Conns : CallOf(c) = CallOf("k6") /\ cstate[c] = "open"

(***************************************************************************)
(* Admission and teardown.                                                 *)
(***************************************************************************)
\* the close code the tests expect for an unauthenticated connection
PolicyViolation == "4001"

\* C11 as stated: a connection of an unauthenticated user is never accepted
\* and is closed with the policy-violation code 4001.
C11_AnonymousClosedWith4001 ==
    \A c \in Conns : (is_anonymous(UserOf(c)) /\ cstate[c] # "idle") =>
        /\ cstate[c] # "open"
        /\ close_code[c] = PolicyViolation

\* C12 as stated: a connection for a call id without a CallSession is
\* refused: it is not open, it is in no call group, and no user_joined is
\* sent for it.
C12_UnknownCallRefused ==
    \A c \in Conns : CallOf(c) \notin ExistingCalls =>
        /\ cstate[c] # "open"
        /\ \A g \in GroupNames : c \notin groups[g]
        /\ \A k \in DOMAIN sends : sends[k].event # joined_event(c)

\* C13 as stated: an admitted connection has been sent exactly one
\* existing_participants frame.
C13_OneSnapshotPerAdmission ==
    \A c \in Conns : cstate[c] = "open" =>
        Cardinality({i \in DOMAIN sent[c] :
                        sent[c][i].type = "existing_participants"}) = 1

\* C14: for every admission, each connection that was a member of the call
\* group before it and is still live has the user_joined event exactly once,
\* waiting in its channel or delivered to its client, and event and frame
\* carry the user id and the username of the admitted connection.
C14_JoinReachesEarlierMembers ==
    \A k \in DOMAIN sends : sends[k].event.type = "user_joined" =>
        LET ev == sends[k].event
        IN /\ ev.user_id = StrId(UserOf(ev.src))
           /\ ev.username = Username(UserOf(ev.src))
           /\ \A c \in Conns \ {ev.src} :
                 (MemberAt(c, k) /\ cstate[c] = "open") =>
                     /\ GotOnce(c, k)
                     /\ \A i \in Delivered(c, ev) :
                           /\ sent[c][i].user_id = StrId(UserOf(ev.src))
                           /\ sent[c][i].username = Username(UserOf(ev.src))

\* C14 witness: an earlier member of the call has been sent the user_joined
\* frame of a connection admitted after it.
C14_Witness ==
    \E k \in DOMAIN sends : \E c \in Conns \ {sends[k].event.src} :
        /\ sends[k].event.type = "user_joined"
        /\ MemberAt(c, k)
        /\ cstate[c] = "open"
        /\ Delivered(c, sends[k].event) # {}

\* C15 as stated: when an admitted connection was torn down, it is in no
\* group and a user_left event with its user id was sent; each connection
\* that was a member of the call group then and is still live has that
\* event in its channel or delivered to its client with that user id.
C15_LeaveReachesRemainingMembers ==
    /\ \A c \in Conns :
          (~is_anonymous(UserOf(c)) /\ cstate[c] \in {"closed", "failed"}) =>
              /\ \A g \in GroupNames : c \notin groups[g]
              /\ \E k \in DOMAIN sends : sends[k].event = left_event(c)
    /\ \A k \in DOMAIN sends : sends[k].event.type = "user_left" =>
          LET ev == sends[k].event
          IN /\ ev.user_id = StrId(UserOf(ev.src))
             /\ \A c \in Conns \ {ev.src} :
                   (MemberAt(c, k) /\ cstate[c] = "open") =>
                       /\ Pending(c, ev) \cup Delivered(c, ev) # {}
                       /\ \A i \in Delivered(c, ev) :
                             sent[c][i].user_id = StrId(UserOf(ev.src))

\* C16: a disconnect that comes a second time for a connection that was
\* torn down sends no further user_left and raises nothing: at most one
\* user_left is ever sent for a connection, and after the second disconnect
\* a closed connection is closed still, at rest and in no group.
C16_SecondTeardownSendsNothing ==
    \A c \in Conns :
        /\ NumLeaves(c) <= 1
        /\ (ignored[c] > 0 /\ NumLeaves(c) = 1) =>
               /\ cstate[c] = "closed"
               /\ pc[c] = AtRest
               /\ \A g \in GroupNames : c \notin groups[g]

\* C16 witness: a second disconnect came for a closed connection whose one
\* user_left another member of the call has been sent.
C16_Witness ==
    \E c \in Conns : \E d \in Conns \ {c} :
        /\ ignored[c] > 0
        /\ NumLeaves(c) = 1
        /\ cstate[d] = "open"
        /\ Delivered(d, left_event(c)) # {}

\* C17 as stated: when remove_participant_from_call fails during the
\* teardown of an admitted connection, the connection is still taken out of
\* its call group and its user_left is still sent.
C17_TeardownSurvivesPersistenceFailure ==
    \A c \in Conns : (~is_anonymous(UserOf(c)) /\ cstate[c] = "failed") =>
        /\ \A g \in GroupNames : c \notin groups[g]
        /\ \E k \in DOMAIN sends : sends[k].event = left_event(c)

(***************************************************************************)
(* Participant rows.                                                       *)
(***************************************************************************)
\* the add_participant_to_call and remove_participant_from_call calls the
\* consumers made for (call_id, u)
PartOps(call_id, u) ==
    {k \in DOMAIN dbops : dbops[k].call_id = call_id /\ dbops[k].user = u}

\* which of the two the last of them was
LastPartOp(call_id, u) ==
    LET last == CHOOSE k \in PartOps(call_id, u) :
                    \A j \in PartOps(call_id, u) : j <= k
    IN dbops[last].op

NumJoins(call_id, u) ==
    Cardinality({k \in PartOps(call_id, u) :
                    dbops[k].op = "add_participant_to_call"})

\* C18: for an existing call and a user, once add_participant_to_call has
\* run twice or more and nothing removed the participant after the last run,
\* the row of (call, user) exists and is active.
C18_EnsureTwiceOneActiveRow ==
    \A call_id \in ExistingCalls, u \in Users :
        (NumJoins(call_id, u) >= 2 /\ LastPartOp(call_id, u) = "add_participant_to_call") =>
            /\ participants[call_id, u].exists
            /\ participants[call_id, u].is_active

\* C18 witness: u2 joined call cA on one connection, left, and joined again
\* on another; its row is active.
C18_Witness ==
    /\ cstate["k2"] = "closed"
    /\ cstate["k4"] = "open"
    /\ LastPartOp("cA", "u2") = "add_participant_to_call"
    /\ participants["cA", "u2"].is_active

\* C19: whatever the interleaving of two get_or_create calls for the same
\* call and user, made by add_participant_to_call, call_room or join_call,
\* neither raises, and once one of them has finished the row exists.
C19_RacingEnsureOneRowNoRaise ==
    /\ \A r \in Racers : racer[r].pc # "raised"
    /\ (\E r \in Racers : racer[r].pc = "done") =>
           participants[RaceCall, RaceUser].exists

\* C19 witness: both calls have finished and one of them had its INSERT
\* refused by the unique constraint.
C19_Witness ==
    /\ \A r \in Racers : racer[r].pc = "done"
    /\ \E r \in Racers : racer[r].conflict

\* C20 as stated: after remove_participant_from_call the row of the
\* participant is inactive and has its left_at set.
C20_MarkLeftSetsLeftAt ==
    \A call_id \in ExistingCalls, u \in Users :
        (/\ PartOps(call_id, u) # {}
         /\ LastPartOp(call_id, u) = "remove_participant_from_call"
         /\ \A r \in Racers : racer[r].pc = "idle"
         /\ participants[call_id, u].exists) =>
            /\ ~participants[call_id, u].is_active
            /\ participants[call_id, u].left_at # Null

(***************************************************************************)
(* Quality selection.                                                      *)
(***************************************************************************)
\* C27: for every bandwidth b and CPU usage c tried, get_optimal_quality
\* returns low if b < 500 or c > 80, otherwise medium if b < 2000 or c > 60,
\* otherwise high if b < 5000, otherwise ultra.
C27_QualityByThresholds ==
    quality # Null =>
        LET b == bandwidth_kbps
            c == cpu_usage_percent
        IN /\ (b < 500 \/ c > 80) => quality = "low"
           /\ (b >= 500 /\ c <= 80 /\ (b < 2000 \/ c > 60)) => quality = "medium"
           /\ (b >= 2000 /\ c <= 60 /\ b < 5000) => quality = "high"
           /\ (b >= 5000 /\ c <= 60) => quality = "ultra"
           /\ (b = 1000 /\ c = 81) => quality = "low"

\* C27 witness: the call was made at the bandwidth boundary 2000 with
\* CPU usage 50 and returned high.
C27_Witness ==
    /\ bandwidth_kbps = 2000
    /\ cpu_usage_percent = 50
    /\ quality = "high"

\* C28 as stated: get_optimal_quality(500, 80) is low and
\* get_optimal_quality(2000, 60) is medium.
C28_CombinedBoundaries ==
    quality # Null =>
        /\ (bandwidth_kbps = 500 /\ cpu_usage_percent = 80) => quality = "low"
        /\ (bandwidth_kbps = 2000 /\ cpu_usage_percent = 60) => quality = "medium"

(***************************************************************************)
(* Active calls and their cache; starting a call.                          *)
(***************************************************************************)
\* the get_active_calls calls of user u that returned
Returned(u) ==
    {i \in DOMAIN log : /\ log[i].op = "get_active_calls"
                        /\ log[i].user = u
                        /\ log[i].outcome = "returned"}

\* the j-th call was made after the i-th was over
MadeAfter(j, i) == log[j].began >= i

\* the cache entry of u was deleted between the i-th and the j-th call
DeletedBetween(u, i, j) ==
    \E k \in (i + 1)..(j - 1) : log[k].op = "delete" /\ log[k].user = u

\* C25 as stated: once get_active_calls(u) returned a non-empty result,
\* every get_active_calls(u) made later returns the same result for as long
\* as the cache entry is not deleted, whatever calls were created in
\* between; the first call made after the entry was deleted returns what the
\* database holds then.
C25_CachedResultUntilDeleted ==
    \A u \in ServiceUsers : \A j \in Returned(u) :
        /\ \A i \in Returned(u) :
              (MadeAfter(j, i) /\ log[i].out # {} /\ ~DeletedBetween(u, i, j)) =>
                  log[j].out = log[i].out
        /\ (\E k \in 1..(j - 1) :
               /\ log[k].op = "delete" /\ log[k].user = u
               /\ MadeAfter(j, k)
               /\ \A i \in Returned(u) : ~(k < i /\ i < j)) =>
                  log[j].out = log[j].db

\* C26 as stated: when cache.get or cache.set raises, get_active_calls does
\* not raise and returns the user's active calls from the database.
C26_CacheFailureFallsBack ==
    \A i \in DOMAIN log :
        (log[i].op = "get_active_calls" /\ log[i].arg # "none") =>
            /\ log[i].outcome = "returned"
            /\ log[i].out = log[i].db

\* C29 as stated: a start_call POST naming any existing user, the
\* initiator included, creates a session in status waiting whose
\* participants are the initiator and the target, and ends in the redirect.
C29_StartCallWithTarget ==
    \A i \in DOMAIN log :
        (log[i].op = "start_call" /\ PyTruthy(log[i].arg)
             /\ UsersNamed(log[i].arg) # {}) =>
            /\ log[i].outcome = "redirect"
            /\ sessions[log[i].session].exists
            /\ sessions[log[i].session].status = "waiting"
            /\ log[i].out = {log[i].user} \cup UsersNamed(log[i].arg)

(***************************************************************************)
(* Rejoin, ordering, life cycle and failures during admission.             *)
(***************************************************************************)
\* C21: every participant row that is active has no left_at.
C21_ActiveRowHasNoLeftAt ==
    \A call_id \in ExistingCalls, u \in Users :
        participants[call_id, u].is_active =>
            participants[call_id, u].left_at = Null

\* C21 witness: u2 joined call cA through a WebSocket connection and left,
\* a view found the inactive row and saved it, and the row is active with
\* no left_at.
C21_Witness ==
    /\ cstate["k2"] = "closed"
    /\ LastPartOp("cA", "u2") = "remove_participant_from_call"
    /\ \E r \in Racers :
           /\ racer[r].kind \in ViewKinds
           /\ racer[r].pc = "done"
           /\ racer[r].obj.exists
           /\ ~racer[r].obj.is_active
    /\ participants["cA", "u2"].is_active
    /\ participants["cA", "u2"].left_at = Null

\* the positions in the frames sent to d's client that relay a client frame
\* of c
RelayedFrom(d, c) ==
    {p \in DOMAIN sent[d] :
        sent[d][p].src = c /\ sent[d][p].idx > 0 /\ sent[d][p].type # "error"}

\* the positions in the channel of d of events made for a client frame of c
PendingFrom(d, c) ==
    {p \in DOMAIN inbox[d] : inbox[d][p].src = c /\ inbox[d][p].idx > 0}

\* C22: the recognized frames a connection received from its client each
\* caused exactly one group_send, in the order they were received; every
\* recipient is sent their relays in that order, and what still waits in
\* its channel waits in that order behind what was already sent.
C22_PerSenderFifo ==
    \A c \in Conns :
        /\ \A i \in DOMAIN rcvd[c] :
              (rcvd[c][i].form = "object" /\ rcvd[c][i].type \in RecognizedTypes)
                  => Cardinality(SendsFor(c, i)) = 1
        /\ \A j, k \in DOMAIN sends :
              (/\ j < k
               /\ sends[j].event.src = c /\ sends[j].event.idx > 0
               /\ sends[k].event.src = c /\ sends[k].event.idx > 0)
                  => sends[j].event.idx < sends[k].event.idx
        /\ \A d \in Conns :
              /\ \A p, q \in RelayedFrom(d, c) :
                    p < q => sent[d][p].idx < sent[d][q].idx
              /\ \A p, q \in PendingFrom(d, c) :
                    p < q => inbox[d][p].idx < inbox[d][q].idx
              /\ \A p \in RelayedFrom(d, c) : \A q \in PendingFrom(d, c) :
                    sent[d][p].idx < inbox[d][q].idx

\* C22 witness: a connection has been sent the relays of two frames of
\* another connection, and a second frame waited behind a first one.
C22_Witness ==
    \E c \in Conns : \E d \in Conns \ {c} :
        /\ Len(rcvd[c]) = 2
        /\ Cardinality(RelayedFrom(d, c)) = 2
        /\ inbox[d] = <<>>

\* the position of the first user_left sent for c
LeftAt(c) ==
    CHOOSE k \in DOMAIN sends :
        /\ sends[k].event = left_event(c)
        /\ \A j \in 1..(k - 1) : sends[j].event # left_event(c)

\* a connection that is gone for its client: torn down, or its consumer
\* ended by an exception
Gone(c) == cstate[c] \in {"closed", "failed", "crashed", "aborted", "broken"}

\* C23 as stated: no state is skipped: a connection that was accepted and
\* is gone had become active before (its join was broadcast), and a
\* connection that is gone is sent and relays nothing more.
C23_NoStateSkipped ==
    /\ \A c \in Conns : (Gone(c) /\ ~is_anonymous(UserOf(c))) =>
          \E k \in DOMAIN sends : sends[k].event = joined_event(c)
    /\ \A c \in Conns : cstate[c] = "closed" =>
          \A k \in DOMAIN sends :
              (k > LeftAt(c) /\ sends[k].event # left_event(c)) =>
                  /\ sends[k].event.src # c
                  /\ Delivered(c, sends[k].event) = {}

\* C24 as stated: once a connection a has left, no later broadcast of its
\* call is queued for or delivered to it, and a connection admitted to the
\* call after that was sent a snapshot that does not list a.
C24_RoundTripLeavesNoTrace ==
    \A a \in Conns : cstate[a] = "closed" =>
        /\ \A k \in DOMAIN sends :
              (k > LeftAt(a) /\ sends[k].event # left_event(a)) =>
                  /\ Pending(a, sends[k].event) = {}
                  /\ Delivered(a, sends[k].event) = {}
        /\ \A b \in Conns \ {a} :
              (/\ CallOf(b) = CallOf(a)
               /\ \E k \in DOMAIN sends :
                     k > LeftAt(a) /\ sends[k].event = joined_event(b)) =>
                  \E p \in DOMAIN sent[b] :
                      /\ sent[b][p].type = "existing_participants"
                      /\ sent[b][p].user_id # StrId(UserOf(a))

\* C30 as stated: a connection whose add_participant_to_call failed during
\* connect is open, is a member of its call group, and its join was
\* broadcast.
C30_AdmissionSurvivesPersistenceFailure ==
    \A c \in Conns : cstate[c] = "aborted" =>
        /\ c \in groups[CallGroupName(CallOf(c))]
        /\ \E k \in DOMAIN sends : sends[k].event = joined_event(c)

(***************************************************************************)
(* Frames that are no objects, targets that are not there, failed sends.   *)
(***************************************************************************)
\* C31 as stated: text that parses to something that is no object (an
\* array, a number, a string, null) gets exactly one error reply to its
\* sender, causes no group_send and no relayed frame, and receive does not
\* raise: the connection stays open.
C31_NonObjectJsonOneErrorStaysOpen ==
    \A c \in Conns : \A i \in DOMAIN rcvd[c] :
        rcvd[c][i].form = "nonobject"
            => /\ Cardinality({j \in DOMAIN sent[c] :
                      sent[c][j].type = "error" /\ sent[c][j].idx = i}) = 1
               /\ SendsFor(c, i) = {}
               /\ RelayedTo(c, i) = {}
               /\ cstate[c] # "crashed"

\* the connections whose user id is target_id and that were members of the
\* call group when the k-th group_send was made
TargetsAt(k) ==
    {d \in Conns : StrId(UserOf(d)) = sends[k].event.target_id /\ MemberAt(d, k)}

\* the k-th group_send carries an offer, an answer or an ICE candidate
\* with a target_id that is the user id of no connection in the call then
UnmatchedTarget(k) ==
    /\ sends[k].event.type \in {"webrtc_offer", "webrtc_answer", "ice_candidate"}
    /\ sends[k].event.target_id # Null
    /\ TargetsAt(k) = {}

\* the same, with a target_id that Python takes for true
Unreachable(k) ==
    /\ sends[k].event.type \in {"webrtc_offer", "webrtc_answer", "ice_candidate"}
    /\ PyTruthy(sends[k].event.target_id)
    /\ TargetsAt(k) = {}

\* C32 as stated: an offer, an answer or an ICE candidate whose target_id
\* matches no connection of the call is relayed to no client and gets no
\* error reply.
C32_UnmatchedTargetDropped ==
    \A k \in DOMAIN sends : UnmatchedTarget(k) =>
        LET c == sends[k].event.src
            i == sends[k].event.idx
        IN /\ RelayedTo(c, i) = {}
           /\ \A f \in Frames(c) : ~(f.type = "error" /\ f.idx = i)

\* C32 amended: an offer, an answer or an ICE candidate whose target_id is
\* true to Python (any value but null, "", 0, false, [] and {}) and matches
\* no connection of the call is relayed to no client and gets no error
\* reply; receive does not raise on it, and every recognized frame its
\* sender sends later is sent to the call group exactly once.
C32_UnreachableTargetDropped ==
    \A k \in DOMAIN sends : Unreachable(k) =>
        LET c == sends[k].event.src
            i == sends[k].event.idx
        IN /\ RelayedTo(c, i) = {}
           /\ \A f \in Frames(c) : ~(f.type = "error" /\ f.idx = i)
           /\ (i = Len(rcvd[c]) => cstate[c] # "crashed")
           /\ \A j \in (i + 1)..Len(rcvd[c]) :
                  (rcvd[c][j].form = "object"
                      /\ rcvd[c][j].type \in RecognizedTypes)
                      => Cardinality(SendsFor(c, j)) = 1

\* C32 witness: a connection sent an ICE candidate to a user with no
\* connection in the call, every member has handled it, and the quality
\* change the same connection sent next has been sent to another member.
C32_Witness ==
    \E k \in DOMAIN sends : \E d \in Conns \ {sends[k].event.src} :
        /\ Unreachable(k)
        /\ sends[k].event.type = "ice_candidate"
        /\ sends[k].event.idx = 1
        /\ MemberAt(d, k)
        /\ Pending(d, sends[k].event) = {}
        /\ \E f \in Frames(d) :
               /\ f.type = "quality_change"
               /\ f.src = sends[k].event.src
               /\ f.idx = 2

\* consumer d ended in self.send while it handled the event of the k-th
\* group_send
FailedOn(d, k) ==
    /\ cstate[d] = "broken"
    /\ \E i \in DOMAIN undelivered[d] : undelivered[d][i] = sends[k].event

\* C33: when the send of a broadcast event to one member fails, every other
\* connection that was a member of the group at the broadcast and is live
\* has the event exactly once, waiting in its channel or sent to its client.
C33_FailedSendIsolated ==
    \A k \in DOMAIN sends : \A d \in Conns :
        FailedOn(d, k) =>
            \A c \in Conns \ {d} :
                (MemberAt(c, k) /\ cstate[c] = "open") => GotOnce(c, k)

\* C33 witness: the send of a quality change failed at one member, and
\* another member was sent the same quality change after that failure or
\* before it.
C33_Witness ==
    \E k \in DOMAIN sends : \E d \in Conns : \E c \in Conns \ {d} :
        /\ sends[k].event.type = "quality_change"
        /\ FailedOn(d, k)
        /\ MemberAt(c, k)
        /\ c # sends[k].event.src
        /\ cstate[c] = "open"
        /\ Delivered(c, sends[k].event) # {}

(***************************************************************************)
(* Admission, several connections of one user, sender identity.            *)
(***************************************************************************)
\* the frame the step sends to the client of d, when it sends one
Observes(d) == sent'[d][Len(sent'[d])]

\* C34 as stated, for joins whose connection is still open when they are
\* observed: when a member is sent the user_joined frame of a connection
\* of user U in an existing call, the row of U in that call is active.
C34_JoinObservedRowActive ==
    [][\A d \in Conns :
          (/\ Len(sent'[d]) = Len(sent[d]) + 1
           /\ Observes(d).type = "user_joined"
           /\ CallOf(Observes(d).src) \in ExistingCalls
           /\ cstate[Observes(d).src] = "open")
              => /\ participants[CallOf(Observes(d).src),
                                 UserOf(Observes(d).src)].exists
                 /\ participants[CallOf(Observes(d).src),
                                 UserOf(Observes(d).src)].is_active]_vars

\* C35 as stated: the row of a user in an existing call is active whenever
\* a connection of that user to the call is admitted and open.
C35_RowActiveWhileConnected ==
    \A c \in Conns :
        (/\ cstate[c] = "open"
         /\ pc[c] = AtRest
         /\ CallOf(c) \in ExistingCalls
         /\ \E k \in DOMAIN sends : sends[k].event = joined_event(c))
            => /\ participants[CallOf(c), UserOf(c)].exists
               /\ participants[CallOf(c), UserOf(c)].is_active

\* C36: every event sent to a call group for a client frame, and every
\* frame relayed from it, carries the user id of the connection the frame
\* came in on as sender_id, whatever sender_id the client put in the frame;
\* the screen share frames carry that connection's username. Two frames of
\* one connection that differ only in the sender_id they claim are relayed
\* with the same sender_id.
C36_SenderIdFromConnection ==
    /\ \A k \in DOMAIN sends : sends[k].event.idx > 0 =>
          sends[k].event.sender_id = StrId(UserOf(sends[k].event.src))
    /\ \A d \in Conns : \A f \in Frames(d) :
          (f.idx > 0 /\ f.type # "error") =>
              /\ f.sender_id = StrId(UserOf(f.src))
              /\ f.type \in {"screen_share_start", "screen_share_stop"} =>
                     f.username = Username(UserOf(f.src))
    /\ \A d, e \in Conns : \A f \in Frames(d), h \in Frames(e) :
          (/\ f.idx > 0 /\ h.idx > 0
           /\ f.type # "error" /\ h.type # "error"
           /\ f.src = h.src
           /\ [Cause(f) EXCEPT !.sender_id = Null]
                  = [Cause(h) EXCEPT !.sender_id = Null])
              => f.sender_id = h.sender_id

\* C36 witness: a connection of user u1 sent an offer without a claimed
\* sender_id and the same offer claiming the id of u2, and another
\* connection was sent both with the id of u1.
C36_Witness ==
    \E c \in Conns : \E d \in Conns \ {c} :
        /\ UserOf(c) = "u1"
        /\ Len(rcvd[c]) = 2
        /\ rcvd[c][1].type = "offer" /\ rcvd[c][1].sender_id = Null
        /\ rcvd[c][2].type = "offer" /\ rcvd[c][2].sender_id = "uuid-2"
        /\ \A i \in 1..2 : \E f \in Frames(d) :
               /\ f.type = "webrtc_offer"
               /\ f.src = c /\ f.idx = i
               /\ f.sender_id = "uuid-1"

(***************************************************************************)
(* Ended calls.                                                            *)
(***************************************************************************)
\* C37 as stated: no user has an active row in a call whose status is
\* 'ended': none is created and none is reactivated, by a view or by a
\* WebSocket connect.
C37_NoRowForEndedCall ==
    \A call_id \in EndedCalls, u \in Users :
        ~(participants[call_id, u].exists /\ participants[call_id, u].is_active)

\* C38 as stated: get_active_calls returns no call whose ended_at had been
\* set when it was called.
C38_NoEndedCallReturned ==
    \A i \in DOMAIN log :
        (log[i].op = "get_active_calls" /\ log[i].outcome = "returned") =>
            \A s \in log[i].out :
                ~\E j \in 1..log[i].began :
                    /\ log[j].op = "end_call" /\ log[j].session = s
                    /\ log[j].arg \in {"ended_at", "both"}

(***************************************************************************)
(* Joins and leaves.                                                       *)
(***************************************************************************)
\* C39 as stated: the client of a connection is never sent the user_joined
\* frame of that connection's own admission.
C39_OwnJoinNotReceived ==
    \A c \in Conns : Delivered(c, joined_event(c)) = {}

\* C40: every user_left sent for a connection comes after a user_joined
\* sent for it, and up to any point no more user_left than user_joined were
\* sent for it.
C40_LeaveOnlyAfterJoin ==
    \A k \in DOMAIN sends : sends[k].event.type = "user_left" =>
        LET c == sends[k].event.src
        IN /\ \E j \in 1..(k - 1) : sends[j].event = joined_event(c)
           /\ Cardinality({j \in 1..k : sends[j].event = left_event(c)})
                  <= Cardinality({j \in 1..k : sends[j].event = joined_event(c)})

\* C40 witness: an admitted connection was torn down after its join, and a
\* connection that was in the call before it has been sent its user_joined
\* and then its one user_left.
C40_Witness ==
    \E c \in Conns : \E d \in Conns \ {c} :
        /\ cstate[c] = "closed"
        /\ NumLeaves(c) = 1
        /\ \E j, k \in DOMAIN sends :
               /\ j < k
               /\ sends[j].event = joined_event(c)
               /\ sends[k].event = left_event(c)
        /\ cstate[d] = "open"
        /\ Delivered(d, joined_event(c)) # {}
        /\ Delivered(d, left_event(c)) # {}

====
